---- MODULE Spec2Model ----
(***************************************************************************)
(* Model of analysis_by_synthesis/architecture.py: the convolutional       *)
(* encoder/decoder pairs, the VAE with its reparameterisation step, the    *)
(* ABS ensemble (one VAE per class, losses turned into logits) and         *)
(* get_base_model.                                                         *)
(*                                                                         *)
(* Tensors are records [shape, data, deps]: the shape is exact, data holds *)
(* one representative element per sample (integers stand for the floats),  *)
(* deps is the set of leaf tensors the autograd graph of the tensor        *)
(* reaches.  Library layers (Conv2d, BatchNorm2d, ELU, ...) are modelled   *)
(* by what they do to shapes, to values, to buffers and to the graph.      *)
(***************************************************************************)
EXTENDS Integers, Sequences, FiniteSets, TLC

VARIABLES
    img,        \* SpecSize: the image batch handed to a VAE of one family
    sizes,      \* SpecSize: the shapes VAE.forward produced for img
    gargs,      \* SpecBase: the args namespace handed to get_base_model
    gret,       \* SpecBase: what get_base_model did (returned / raised)
    vae,        \* SpecVAE: one VAE module (parameters, buffers, mode)
    vret,       \* SpecVAE: the record of the last VAE.forward call
    ctor,       \* Spec: the arguments ABS.__init__ was called with
    ensemble,   \* Spec: the ABS module
    ret,        \* Spec: the outcome of the last ABS.forward call
    rng         \* the state of torch's global random number generator

vars == <<img, sizes, gargs, gret, vae, vret, ctor, ensemble, ret, rng>>

----------------------------------------------------------------------------
(* Bounds of the model.                                                    *)

MinHW == 26
MaxHW == 37
MaxBatch == 2
MaxLatents == 3
MaxClasses == 2
MaxLossRank == 2
RngStates == 3

(* Pixel values of the modelled images.                                    *)
Pixels == 0..1

----------------------------------------------------------------------------
(* Layer tables, as written in the constructors.                           *)

Conv2d(cin, cout, k, s) == [t |-> "Conv2d", cin |-> cin, cout |-> cout, k |-> k, s |-> s]
ConvTranspose2d(cin, cout, k, s) ==
    [t |-> "ConvTranspose2d", cin |-> cin, cout |-> cout, k |-> k, s |-> s]
BatchNorm2d(c) == [t |-> "BatchNorm2d", cin |-> c, cout |-> c, k |-> 1, s |-> 1]
ELU == [t |-> "ELU", cin |-> 0, cout |-> 0, k |-> 1, s |-> 1]

EncoderShared ==
    << Conv2d(1, 32, 5, 1), BatchNorm2d(32), ELU,
       Conv2d(32, 32, 4, 2), BatchNorm2d(32), ELU,
       Conv2d(32, 64, 3, 2), BatchNorm2d(64), ELU >>

DecoderLayersLastKernel5(n_latents) ==
    << ConvTranspose2d(n_latents, 32, 4, 1), BatchNorm2d(32), ELU,
       ConvTranspose2d(32, 16, 5, 2), BatchNorm2d(16), ELU,
       ConvTranspose2d(16, 16, 5, 2), BatchNorm2d(16), ELU,
       ConvTranspose2d(16, 1, 5, 1) >>

DecoderLayers(n_latents) ==
    << ConvTranspose2d(n_latents, 32, 4, 1), BatchNorm2d(32), ELU,
       ConvTranspose2d(32, 16, 5, 2), BatchNorm2d(16), ELU,
       ConvTranspose2d(16, 16, 5, 2), BatchNorm2d(16), ELU,
       ConvTranspose2d(16, 1, 4, 1) >>

ColorEncoderShared ==
    << Conv2d(3, 32, 5, 1), BatchNorm2d(32), ELU,
       Conv2d(32, 32, 4, 2), BatchNorm2d(32), ELU,
       Conv2d(32, 32, 3, 1), BatchNorm2d(32), ELU,
       Conv2d(32, 64, 3, 2), BatchNorm2d(64), ELU >>

ColorDecoderLayers(n_latents) ==
    << ConvTranspose2d(n_latents, 32, 4, 1), BatchNorm2d(32), ELU,
       ConvTranspose2d(32, 32, 5, 2), BatchNorm2d(32), ELU,
       ConvTranspose2d(32, 16, 3, 1), BatchNorm2d(16), ELU,
       ConvTranspose2d(16, 16, 5, 2), BatchNorm2d(16), ELU,
       ConvTranspose2d(16, 3, 4, 1) >>

(* conv_mu and conv_logvar: the two heads, same geometry.                  *)
EncoderHead(n_latents) == Conv2d(64, n_latents, 5, 1)

SharedOf(color) == IF color THEN ColorEncoderShared ELSE EncoderShared
LayersOf(color, n_latents) ==
    IF color THEN ColorDecoderLayers(n_latents) ELSE DecoderLayers(n_latents)

----------------------------------------------------------------------------
(* Shapes.  A shape result is [ok, shape]; ok = FALSE stands for the       *)
(* RuntimeError the library raises on a channel mismatch or on an input    *)
(* smaller than the kernel.                                                *)

ShapeError == [ok |-> FALSE, shape |-> <<>>]
ShapeOk(s) == [ok |-> TRUE, shape |-> s]

Conv2dOut(n, k, s) == ((n - k) \div s) + 1
ConvTranspose2dOut(n, k, s) == (n - 1) * s + k

LayerShape(layer, r) ==
    IF ~r.ok THEN r
    ELSE LET sh == r.shape IN
         CASE layer.t = "Conv2d" ->
                IF sh[2] # layer.cin \/ sh[3] < layer.k \/ sh[4] < layer.k
                THEN ShapeError
                ELSE ShapeOk(<<sh[1], layer.cout,
                               Conv2dOut(sh[3], layer.k, layer.s),
                               Conv2dOut(sh[4], layer.k, layer.s)>>)
           [] layer.t = "ConvTranspose2d" ->
                IF sh[2] # layer.cin THEN ShapeError
                ELSE ShapeOk(<<sh[1], layer.cout,
                               ConvTranspose2dOut(sh[3], layer.k, layer.s),
                               ConvTranspose2dOut(sh[4], layer.k, layer.s)>>)
           [] layer.t = "BatchNorm2d" ->
                IF sh[2] # layer.cin THEN ShapeError ELSE r
           [] OTHER -> r

RECURSIVE SequentialShape(_, _)
SequentialShape(layers, r) ==
    IF layers = <<>> THEN r
    ELSE SequentialShape(Tail(layers), LayerShape(Head(layers), r))

(* Encoder.forward / ColorEncoder.forward: mu and logvar have this shape.  *)
EncoderShape(color, n_latents, xshape) ==
    LayerShape(EncoderHead(n_latents),
               SequentialShape(SharedOf(color), ShapeOk(xshape)))

(* Decoder.forward / ColorDecoder.forward; the sigmoid keeps the shape.    *)
DecoderShape(color, n_latents, zshape) ==
    SequentialShape(LayersOf(color, n_latents), ShapeOk(zshape))

(* VAE.forward on shapes: z has the shape of mu in both modes.             *)
VAEForwardShape(color, n_latents, xshape) ==
    LET lat == EncoderShape(color, n_latents, xshape) IN
    [latent |-> lat,
     rec |-> IF lat.ok THEN DecoderShape(color, n_latents, lat.shape)
             ELSE ShapeError]

----------------------------------------------------------------------------
(* SpecSize: a VAE of either family is run on image batches of any size.   *)

Images ==
    { [color |-> c, n_latents |-> n, shape |-> <<b, ch, h, w>>] :
        c \in BOOLEAN, n \in {MaxLatents}, b \in {MaxBatch}, ch \in {1, 3},
        h \in MinHW..MaxHW, w \in MinHW..MaxHW }

NoSizes == [called |-> FALSE, latent |-> ShapeError, rec |-> ShapeError]

IdleSize == img = [color |-> FALSE, n_latents |-> 1, shape |-> <<1, 1, 28, 28>>]
            /\ sizes = NoSizes
IdleBase == gargs = [base_model |-> "vae", n_latents_per_class |-> 1]
            /\ gret = [kind |-> "none"]
IdleVAE == vae = [kind |-> "none"] /\ vret = [kind |-> "none"]
IdleABS == ctor = [kind |-> "none"] /\ ensemble = [kind |-> "none"]
           /\ ret = [kind |-> "none"]

InitSize ==
    /\ img \in Images
    /\ sizes = NoSizes
    /\ IdleBase /\ IdleVAE /\ IdleABS
    /\ rng = 0

(* vae = VAE(n_latents, color); vae(x) for the batch img.                  *)
SizeForward ==
    /\ ~sizes.called
    /\ sizes' = [called |-> TRUE] @@ VAEForwardShape(img.color, img.n_latents, img.shape)
    /\ UNCHANGED <<img, gargs, gret, vae, vret, ctor, ensemble, ret, rng>>

(* The caller moves on to another batch.                                   *)
SizeNextImage ==
    /\ sizes.called
    /\ img' \in Images
    /\ sizes' = NoSizes
    /\ UNCHANGED <<gargs, gret, vae, vret, ctor, ensemble, ret, rng>>

NextSize == SizeForward \/ SizeNextImage

SpecSize == InitSize /\ [][NextSize]_vars

----------------------------------------------------------------------------
(* Values.  mu, z, reconstructions are integers; logvar elements are       *)
(* extended reals [neginf, v] so that logvar = -infinity can be told from  *)
(* every finite value.                                                     *)

Fin(n) == [neginf |-> FALSE, v |-> n]
NegInf == [neginf |-> TRUE, v |-> 0]

Indices(s) == 1..Len(s)
Range(s) == { s[i] : i \in DOMAIN s }

RECURSIVE SumSeq(_)
SumSeq(s) == IF s = <<>> THEN 0 ELSE Head(s) + SumSeq(Tail(s))

(* The batch mean a BatchNorm2d layer normalises with in training mode.    *)
BatchMean(data) == SumSeq(data) \div Len(data)

(* BatchNorm2d buffers hold one of three levels (the sign of the mean the  *)
(* layer last saw in training mode).                                       *)
Level(n) == IF n > 0 THEN 1 ELSE IF n < 0 THEN -1 ELSE 0

(* nn.BatchNorm2d: batch statistics and a buffer update in training mode,  *)
(* the running statistics and no update in evaluation mode.                *)
BatchNorm(data, running, training) ==
    IF training
    THEN [data |-> [i \in Indices(data) |-> data[i] - BatchMean(data)],
          running |-> Level(BatchMean(data))]
    ELSE [data |-> [i \in Indices(data) |-> data[i] - running],
          running |-> running]

(* nn.ELU on integers: the identity above 0, bounded below by -1.          *)
Elu(n) == IF n >= 0 THEN n ELSE -1

(* nn.Sigmoid on integers: into [0, 1].                                    *)
Sigmoid(n) == IF n > 0 THEN 1 ELSE 0

(* torch.exp(0.5 * logvar) on one element: 0 exactly for -infinity and     *)
(* positive for every finite logvar.                                       *)
ExpHalf(lv) ==
    IF lv.neginf THEN 0
    ELSE IF lv.v \div 2 > 0 THEN 2 ^ (lv.v \div 2) ELSE 1

(* One standard normal draw per generator state; the generator steps once  *)
(* per element drawn.                                                      *)
Noise(r) == (r % RngStates) - 1
Advance(r, n) == (r + n) % RngStates

----------------------------------------------------------------------------
(* Modules and their parameters.  A parameter is named by the module       *)
(* object that owns it, the submodule and the position in it.  The leaves  *)
(* of an autograd graph (the deps of a tensor) are named by submodule:     *)
(* <<owner, role, sub>> stands for every parameter of that submodule, all  *)
(* of which enter its output.                                              *)

LeafOf(param) == <<param[1], param[2], param[3]>>

HasParams(layer) == layer.t \in {"Conv2d", "ConvTranspose2d", "BatchNorm2d"}

RECURSIVE SequentialParameters(_, _, _, _, _)
SequentialParameters(owner, role, sub, layers, i) ==
    IF i > Len(layers) THEN <<>>
    ELSE (IF HasParams(layers[i])
          THEN << <<owner, role, sub, i - 1, "weight">>,
                  <<owner, role, sub, i - 1, "bias">> >>
          ELSE <<>>)
         \o SequentialParameters(owner, role, sub, layers, i + 1)

(* list(vae.encoder.parameters()): shared, conv_mu, conv_logvar.           *)
EncoderParameters(v) ==
    SequentialParameters(v.id, "encoder", "shared", SharedOf(v.color), 1)
    \o SequentialParameters(v.id, "encoder", "conv_mu", <<EncoderHead(v.n_latents)>>, 1)
    \o SequentialParameters(v.id, "encoder", "conv_logvar", <<EncoderHead(v.n_latents)>>, 1)

(* list(vae.decoder.parameters()): layers; the sigmoid has none.           *)
DecoderParameters(v) ==
    SequentialParameters(v.id, "decoder", "layers", LayersOf(v.color, v.n_latents), 1)

(* vae.parameters(): a VAE holds no parameter of its own, only those of    *)
(* its two children.                                                       *)
VAEParameters(v) == Range(EncoderParameters(v)) \cup Range(DecoderParameters(v))

(* VAE.__init__: the module is built in training mode, its weights drawn   *)
(* from the generator, its BatchNorm buffers at 0.                         *)
VAE(n_latents, color, id, r) ==
    [kind |-> "VAE", id |-> id, n_latents |-> n_latents, color |-> color,
     training |-> TRUE,
     encoder |-> [w |-> 1 + (r % 2), blv |-> Fin(0), running |-> 0],
     decoder |-> [w |-> 1, running |-> 0]]

(* The weight draws of one VAE construction step the generator.            *)
AfterConstruction(r) == Advance(r, 1)

----------------------------------------------------------------------------
(* get_base_model.                                                         *)

None == [kind |-> "None"]

(* one_lip_ae.one_lip_nets.get_one_lip_model: an opaque model.             *)
get_one_lip_model(args) == [kind |-> "OneLipModel"]

NotImplementedMessage(args) ==
    <<"model", args.base_model, "is", "not", "implemented", "try",
      "OneLipAE", "or", "VAE">>

get_base_model_falls_back_to_vae(args, r) ==
    IF args.base_model = "one_lip_ae"
    THEN [kind |-> "return", value |-> get_one_lip_model(args),
          message |-> <<>>, rng |-> r]
    ELSE [kind |-> "return",
          value |-> VAE(args.n_latents_per_class, FALSE, 1, r),
          message |-> <<>>, rng |-> AfterConstruction(r)]

get_base_model(args, r) ==
    IF args.base_model = "one_lip_ae"
    THEN [kind |-> "return", value |-> get_one_lip_model(args),
          message |-> <<>>, rng |-> r]
    ELSE IF args.base_model = "vae"
    THEN [kind |-> "return",
          value |-> VAE(args.n_latents_per_class, FALSE, 1, r),
          message |-> <<>>, rng |-> AfterConstruction(r)]
    ELSE [kind |-> "NotImplementedError", value |-> None,
          message |-> NotImplementedMessage(args), rng |-> r]

BaseModelKinds ==
    {"one_lip_ae", "vae", "unknown_model", "VAE", "OneLipAE", "", "ae", "one_lip_vae"}
SupportedKinds == {"one_lip_ae", "vae"}

BaseArgs ==
    { [base_model |-> k, n_latents_per_class |-> n] :
        k \in BaseModelKinds, n \in 1..MaxLatents }

InitBase ==
    /\ gargs \in BaseArgs
    /\ gret = [kind |-> "none"]
    /\ rng \in 0..(RngStates - 1)
    /\ IdleSize /\ IdleVAE /\ IdleABS

(* base_model = get_base_model(args)                                       *)
GetBaseModel ==
    /\ gret.kind = "none"
    /\ LET res == get_base_model(gargs, rng) IN
         /\ gret' = [kind |-> res.kind, value |-> res.value, message |-> res.message]
         /\ rng' = res.rng
    /\ UNCHANGED <<img, sizes, gargs, vae, vret, ctor, ensemble, ret>>

(* The caller parses another command line.                                 *)
BaseNextArgs ==
    /\ gret.kind # "none"
    /\ gargs' \in BaseArgs
    /\ gret' = [kind |-> "none"]
    /\ UNCHANGED <<img, sizes, vae, vret, ctor, ensemble, ret, rng>>

NextBase == GetBaseModel \/ BaseNextArgs

SpecBase == InitBase /\ [][NextBase]_vars

(* C4: get_base_model raises NotImplementedError, with a message naming    *)
(* "OneLipAE" and "VAE" and with no model returned, for every kind other   *)
(* than 'one_lip_ae' and 'vae'; for those two it raises nothing and        *)
(* returns the constructed model.                                          *)
C4_UnknownKindRaises ==
    gret.kind # "none" =>
        IF gargs.base_model \in SupportedKinds
        THEN /\ gret.kind = "return"
             /\ gret.value # None
             /\ gret.value.kind = (IF gargs.base_model = "vae" THEN "VAE"
                                   ELSE "OneLipModel")
        ELSE /\ gret.kind = "NotImplementedError"
             /\ gret.value = None
             /\ {"OneLipAE", "VAE"} \subseteq
                    { gret.message[i] : i \in (DOMAIN gret.message) \ {2} }

(* Witness: the kind "unknown_model" was asked for and the error raised.   *)
C4_Witness ==
    /\ gargs.base_model = "unknown_model"
    /\ gret.kind = "NotImplementedError"
    /\ gret.message[2] = "unknown_model"

----------------------------------------------------------------------------
(* Tensors and the VAE forward pass.                                       *)

Tensor(shape, data, deps) == [shape |-> shape, data |-> data, deps |-> deps]

(* The image batch: 28x28 grayscale or 32x32 color, one value per sample.  *)
ImageShape(color, b) == IF color THEN <<b, 3, 32, 32>> ELSE <<b, 1, 28, 28>>
Input(color, data, requires_grad) ==
    Tensor(ImageShape(color, Len(data)), data,
           IF requires_grad THEN {<<0, "input", "x">>} ELSE {})

Batches == UNION { [1..b -> Pixels] : b \in 1..MaxBatch }

(* Encoder.forward / ColorEncoder.forward: the shared trunk (convolution,  *)
(* batch normalisation, ELU), then the two heads on the same features.     *)
EncoderForward(v, x) ==
    LET conv == [i \in Indices(x.data) |-> v.encoder.w * x.data[i]]
        bn == BatchNorm(conv, v.encoder.running, v.training)
        shared == [i \in Indices(x.data) |-> Elu(bn.data[i])]
        shape == EncoderShape(v.color, v.n_latents, x.shape).shape
        deps == x.deps \cup {<<v.id, "encoder", "shared">>}
    IN [mu |-> Tensor(shape, [i \in Indices(x.data) |-> v.encoder.w * shared[i]],
                      deps \cup {<<v.id, "encoder", "conv_mu">>}),
        logvar |-> Tensor(shape,
                          [i \in Indices(x.data) |->
                              IF v.encoder.blv.neginf THEN NegInf
                              ELSE Fin(v.encoder.w * shared[i] + v.encoder.blv.v)],
                          deps \cup {<<v.id, "encoder", "conv_logvar">>}),
        running |-> bn.running]

(* Decoder.forward / ColorDecoder.forward: x = self.layers(x) rebinds the  *)
(* local name, the layers write to fresh tensors; then the sigmoid.        *)
DecoderForward(v, z) ==
    LET convt == [i \in Indices(z.data) |-> v.decoder.w * z.data[i]]
        bn == BatchNorm(convt, v.decoder.running, v.training)
        act == [i \in Indices(z.data) |-> Elu(bn.data[i])]
        shape == DecoderShape(v.color, v.n_latents, z.shape).shape
    IN [out |-> Tensor(shape,
                       [i \in Indices(z.data) |-> Sigmoid(v.decoder.w * act[i])],
                       z.deps \cup {<<v.id, "decoder", "layers">>}),
        running |-> bn.running]

(* VAE.reparameterize on a heap of tensor storages: heap maps the names of *)
(* the live tensors to their contents, mu and logvar name the arguments.   *)
(* eps.mul(std) allocates the tensor "t", add_(mu) then writes into "t".   *)
(* The result names the tensor returned.                                   *)
ReparameterizeInPlaceOnMu(v, heap, r) ==
    IF v.training
    THEN LET n == Len(heap.mu.data)
             std == Tensor(heap.logvar.shape,
                           [i \in 1..n |-> ExpHalf(heap.logvar.data[i])],
                           heap.logvar.deps)
             eps == Tensor(std.shape, [i \in 1..n |-> Noise(r + i - 1)], {})
         IN [heap |-> [heap EXCEPT !.mu =
                          Tensor(heap.mu.shape,
                                 [i \in 1..n |-> heap.mu.data[i] + eps.data[i] * std.data[i]],
                                 heap.mu.deps \cup std.deps)]
                      @@ [std |-> std, eps |-> eps],
             z |-> "mu", rng |-> Advance(r, n)]
    ELSE [heap |-> heap, z |-> "mu", rng |-> r]

ReparameterizeAlwaysSample(v, heap, r) ==
    LET n == Len(heap.mu.data)
        std == Tensor(heap.logvar.shape,
                      [i \in 1..n |-> ExpHalf(heap.logvar.data[i])],
                      heap.logvar.deps)
        eps == Tensor(std.shape, [i \in 1..n |-> Noise(r + i - 1)], {})
        t == Tensor(std.shape, [i \in 1..n |-> eps.data[i] * std.data[i]],
                    eps.deps \cup std.deps)
    IN [heap |-> [std |-> std, eps |-> eps,
                  t |-> Tensor(t.shape,
                               [i \in 1..n |-> t.data[i] + heap.mu.data[i]],
                               t.deps \cup heap.mu.deps)] @@ heap,
        z |-> "t", rng |-> Advance(r, n)]

ReparameterizeStdFloored(v, heap, r) ==
    IF v.training
    THEN LET n == Len(heap.mu.data)
             std == Tensor(heap.logvar.shape,
                           [i \in 1..n |-> ExpHalf(Fin(heap.logvar.data[i].v))],
                           heap.logvar.deps)
             eps == Tensor(std.shape, [i \in 1..n |-> Noise(r + i - 1)], {})
             t == Tensor(std.shape, [i \in 1..n |-> eps.data[i] * std.data[i]],
                         eps.deps \cup std.deps)
         IN [heap |-> [std |-> std, eps |-> eps,
                       t |-> Tensor(t.shape,
                                    [i \in 1..n |-> t.data[i] + heap.mu.data[i]],
                                    t.deps \cup heap.mu.deps)] @@ heap,
             z |-> "t", rng |-> Advance(r, n)]
    ELSE [heap |-> heap, z |-> "mu", rng |-> r]

reparameterize(v, heap, r) ==
    IF v.training
    THEN LET n == Len(heap.mu.data)
             std == Tensor(heap.logvar.shape,
                           [i \in 1..n |-> ExpHalf(heap.logvar.data[i])],
                           heap.logvar.deps)
             eps == Tensor(std.shape, [i \in 1..n |-> Noise(r + i - 1)], {})
             t == Tensor(std.shape, [i \in 1..n |-> eps.data[i] * std.data[i]],
                         eps.deps \cup std.deps)
         IN [heap |-> [std |-> std, eps |-> eps,
                       t |-> Tensor(t.shape,
                                    [i \in 1..n |-> t.data[i] + heap.mu.data[i]],
                                    t.deps \cup heap.mu.deps)] @@ heap,
             z |-> "t", rng |-> Advance(r, n)]
    ELSE [heap |-> heap, z |-> "mu", rng |-> r]

(* VAE.forward: what it returns (rec, mu, logvar, read when it returns),   *)
(* the module afterwards (BatchNorm buffers), the generator afterwards,    *)
(* and what happened inside (the encoder's outputs as it produced them,    *)
(* the tensor z names, the heap when the decoder is done).                 *)
VAEForward(v, x, r) ==
    LET enc == EncoderForward(v, x)
        rp == reparameterize(v, [mu |-> enc.mu, logvar |-> enc.logvar], r)
        dec == DecoderForward(v, rp.heap[rp.z])
    IN [rec |-> dec.out, mu |-> rp.heap.mu, logvar |-> rp.heap.logvar,
        module |-> [v EXCEPT !.encoder.running = enc.running,
                             !.decoder.running = dec.running],
        rng |-> rp.rng,
        enc_mu |-> enc.mu, enc_logvar |-> enc.logvar,
        zname |-> rp.z, z |-> rp.heap[rp.z], heap |-> rp.heap]

(* The values an external training procedure (or a test) leaves in the     *)
(* parameters: [encoder weight, conv_logvar bias, decoder weight].         *)
ParamSettings ==
    { [w |-> 1, blv |-> Fin(0), dw |-> 1], [w |-> 2, blv |-> Fin(2), dw |-> 1],
      [w |-> 1, blv |-> NegInf, dw |-> 2], [w |-> 2, blv |-> NegInf, dw |-> 1] }

(* The settings the ensemble's training procedure moves a class-VAE to.    *)
EnsembleParamSettings ==
    { [w |-> 1, blv |-> Fin(0), dw |-> 1], [w |-> 2, blv |-> Fin(2), dw |-> 2] }

SetParams(v, p) ==
    [v EXCEPT !.encoder.w = p.w, !.encoder.blv = p.blv, !.decoder.w = p.dw]

(* nn.Module.train(mode) / eval().                                         *)
SetTraining(v, mode) == [v EXCEPT !.training = mode]

----------------------------------------------------------------------------
(* SpecVAE: one VAE, switched between modes, trained from outside, called. *)

InitVAE ==
    /\ rng \in 0..(RngStates - 1)
    /\ \E color \in BOOLEAN, n \in {MaxLatents} : vae = VAE(n, color, 1, rng)
    /\ vret = [kind |-> "none"]
    /\ IdleSize /\ IdleBase /\ IdleABS

VAETrain ==
    /\ vret.kind = "none"
    /\ \E mode \in BOOLEAN : vae' = SetTraining(vae, mode)
    /\ UNCHANGED vret
    /\ UNCHANGED <<img, sizes, gargs, gret, ctor, ensemble, ret, rng>>

VAEOptimizerStep ==
    /\ vret.kind = "none"
    /\ \E p \in ParamSettings : vae' = SetParams(vae, p)
    /\ UNCHANGED vret
    /\ UNCHANGED <<img, sizes, gargs, gret, ctor, ensemble, ret, rng>>

(* torch.manual_seed(s)                                                    *)
VAEManualSeed ==
    /\ vret.kind = "none"
    /\ \E s \in 0..(RngStates - 1) : rng' = s
    /\ UNCHANGED vret
    /\ UNCHANGED <<img, sizes, gargs, gret, vae, ctor, ensemble, ret>>

(* rec, mu, logvar = vae(x)                                                *)
VAECall ==
    /\ vret.kind = "none"
    /\ \E data \in Batches, g \in BOOLEAN :
      \E x \in {Input(vae.color, data, g)} :
        \E f \in {VAEForward(vae, x, rng)} :
           /\ vret' = [kind |-> "call", x |-> x, training |-> vae.training,
                       rng_before |-> rng, before |-> vae,
                       rec |-> f.rec, mu |-> f.mu, logvar |-> f.logvar,
                       enc_mu |-> f.enc_mu, enc_logvar |-> f.enc_logvar,
                       zname |-> f.zname, z |-> f.z, heap |-> f.heap]
           /\ vae' = f.module
           /\ rng' = f.rng
           /\ UNCHANGED <<img, sizes, gargs, gret, ctor, ensemble, ret>>

(* The caller takes the returned tensors; the next operation follows.      *)
VAEReturn ==
    /\ vret.kind # "none"
    /\ vret' = [kind |-> "none"]
    /\ UNCHANGED <<img, sizes, gargs, gret, vae, ctor, ensemble, ret, rng>>

NextVAE == VAETrain \/ VAEOptimizerStep \/ VAEManualSeed \/ VAECall \/ VAEReturn

SpecVAE == InitVAE /\ [][NextVAE]_vars

Outputs(f) == <<f.rec, f.mu, f.logvar>>

(* C3: in evaluation mode VAE.forward is deterministic: a call with the    *)
(* same module state and the same input returns the same (rec, mu, logvar) *)
(* whatever the state of the random number generator, which the call does  *)
(* not draw from; this holds for a repeat of the call before it and for    *)
(* one after it.                                                           *)
C3_EvalDeterministic ==
    (vret.kind = "call" /\ ~vret.training) =>
        /\ rng = vret.rng_before
        /\ vret.zname = "mu"
        /\ \A r \in 0..(RngStates - 1) :
              /\ Outputs(VAEForward(vret.before, vret.x, r)) = Outputs(vret)
              /\ Outputs(VAEForward(vae, vret.x, r)) = Outputs(vret)

(* Witness: an evaluation-mode call on a module whose conv_logvar bias is  *)
(* finite (training mode would have added noise of standard deviation > 0) *)
(* made from a generator state other than the initial one.                 *)
C3_Witness ==
    /\ vret.kind = "call" /\ ~vret.training
    /\ vret.rng_before # 0
    /\ \E i \in DOMAIN vret.logvar.data : ExpHalf(vret.logvar.data[i]) > 0
    /\ Len(vret.x.data) = MaxBatch

(* C7: when every element of logvar is -infinity (std = 0) a training-mode *)
(* call gets z = eps*std + mu = mu for every noise draw, the latent that   *)
(* evaluation mode hands to the decoder for the same mu.                   *)
C7_ZeroStdSamplesMu ==
    (/\ vret.kind = "call" /\ vret.training
     /\ \A i \in DOMAIN vret.logvar.data : vret.logvar.data[i].neginf) =>
        /\ vret.z.data = vret.mu.data
        /\ \A r \in 0..(RngStates - 1) :
              LET ev == reparameterize(SetTraining(vret.before, FALSE),
                                       [mu |-> vret.enc_mu, logvar |-> vret.enc_logvar], r)
              IN ev.heap[ev.z].data = vret.z.data

(* Witness: a training-mode call with logvar = -infinity whose noise draw  *)
(* was not 0 for some sample, and whose mu is not 0 there either.          *)
C7_Witness ==
    /\ vret.kind = "call" /\ vret.training
    /\ \A i \in DOMAIN vret.logvar.data : vret.logvar.data[i].neginf
    /\ \E i \in DOMAIN vret.mu.data :
          vret.heap.eps.data[i] # 0 /\ vret.mu.data[i] # 0

(* C10: in both modes the mu and logvar VAE.forward returns are the        *)
(* encoder's outputs, untouched: the in-place add_ of training mode writes *)
(* only the fresh eps*std tensor, and in evaluation mode z is mu itself    *)
(* and still equals the returned mu after decoding.                        *)
C10_MuLogvarUntouched ==
    vret.kind = "call" =>
        /\ vret.mu = vret.enc_mu
        /\ vret.logvar = vret.enc_logvar
        /\ vret.heap.mu = vret.enc_mu
        /\ vret.training => vret.zname = "t"
        /\ ~vret.training => (vret.zname = "mu" /\ vret.z = vret.mu)

(* Witness: a training-mode call whose in-place addition changed the       *)
(* tensor it wrote to (eps*std is not 0 and neither is mu).                *)
C10_Witness ==
    /\ vret.kind = "call" /\ vret.training
    /\ \E i \in DOMAIN vret.mu.data :
          /\ vret.heap.eps.data[i] * vret.heap.std.data[i] # 0
          /\ vret.mu.data[i] # 0
          /\ vret.z.data[i] # vret.mu.data[i]

----------------------------------------------------------------------------
(* The ABS ensemble.                                                       *)

(* [base_model_f() for _ in range(n_classes)]: every call of the factory   *)
(* builds a new VAE object; i is the identity of the next object.          *)
RECURSIVE BuildModels(_, _, _, _)
BuildModels(base_model_f, n_classes, i, r) ==
    IF i > n_classes THEN <<>>
    ELSE <<VAE(base_model_f.n_latents, base_model_f.color, i, r)>>
         \o BuildModels(base_model_f, n_classes, i + 1, AfterConstruction(r))

(* [item for vae in base_models for item in list(vae.encoder.parameters())] *)
RECURSIVE EncoderParameterList(_)
EncoderParameterList(base_models) ==
    IF base_models = <<>> THEN <<>>
    ELSE EncoderParameters(Head(base_models)) \o EncoderParameterList(Tail(base_models))

RECURSIVE DecoderParameterListFromEncoders(_)
DecoderParameterListFromEncoders(base_models) ==
    IF base_models = <<>> THEN <<>>
    ELSE EncoderParameters(Head(base_models))
         \o DecoderParameterListFromEncoders(Tail(base_models))

(* [item for vae in base_models for item in list(vae.decoder.parameters())] *)
RECURSIVE DecoderParameterList(_)
DecoderParameterList(base_models) ==
    IF base_models = <<>> THEN <<>>
    ELSE DecoderParameters(Head(base_models)) \o DecoderParameterList(Tail(base_models))

(* ABS.__init__: beta and loss_f are kept, color and logit_scale are not   *)
(* (the logit_scale parameter is commented out).                           *)
ABSInit(n_classes, beta, color, logit_scale, base_model_f, loss_f, r) ==
    LET base_models == BuildModels(base_model_f, n_classes, 1, r) IN
    [kind |-> "ABS", training |-> TRUE,
     beta |-> beta, loss_f |-> loss_f,
     base_models |-> base_models,
     encoder_parameters |-> EncoderParameterList(base_models),
     decoder_parameters |-> DecoderParameterList(base_models)]

(* tensor.detach(): the same values, cut from the autograd graph.          *)
Detach(t) == [t EXCEPT !.deps = {}]

(* torch.stack(ts): a new leading axis; the tensors have one shape.        *)
Stack(ts) ==
    Tensor(<<Len(ts)>> \o ts[1].shape,
           [k \in Indices(ts) |-> ts[k].data],
           UNION { ts[k].deps : k \in Indices(ts) })

(* The scalar loss of one sample under one class, as the term the external *)
(* loss function computes from its arguments.                              *)
LossTerm(x, rec, mu, logvar, beta, loss_f) ==
    [f |-> "samplewise_loss", x |-> x, rec |-> rec, mu |-> mu, logvar |-> logvar,
     beta |-> beta, loss_f |-> loss_f]

NegTerm(t) == [f |-> "neg", of |-> t]

(* loss_functions.samplewise_loss_function: one scalar per sample (rank    *)
(* 1).  A malformed or refactored loss function is one of another rank: a  *)
(* reduced scalar (rank 0) or an unreduced loss (rank 2 and more, the      *)
(* leading axes of x).                                                     *)
samplewise_loss_function(x, rec, mu, logvar, beta, loss_f, rank) ==
    Tensor(SubSeq(x.shape, 1, rank),
           [b \in Indices(x.data) |->
               LossTerm(x.data[b], rec.data[b], mu.data[b], logvar.data[b], beta, loss_f)],
           x.deps \cup rec.deps \cup mu.deps \cup logvar.deps)

(* outputs = [base_model(x) for base_model in self.base_models]: the       *)
(* models run one after the other, each drawing from the generator.        *)
RECURSIVE RunModels(_, _, _)
RunModels(base_models, x, r) ==
    IF base_models = <<>> THEN [outputs |-> <<>>, modules |-> <<>>, rng |-> r]
    ELSE LET f == VAEForward(Head(base_models), x, r)
             rest == RunModels(Tail(base_models), x, f.rng)
         IN [outputs |-> <<[rec |-> f.rec, mu |-> f.mu, logvar |-> f.logvar]>>
                         \o rest.outputs,
             modules |-> <<f.module>> \o rest.modules,
             rng |-> rest.rng]

(* The arguments of one samplewise_loss_function call: the names recs, mus *)
(* and logvars are those of the comprehension, one model's outputs.        *)
LossArgumentsNotDetached(out) ==
    [rec |-> out.rec, mu |-> out.mu, logvar |-> out.logvar]

LossArguments(out) ==
    [rec |-> Detach(out.rec), mu |-> Detach(out.mu), logvar |-> Detach(out.logvar)]

(* assert losses.dim() == 2                                                *)
AssertionNeverFails(losses) == TRUE

AssertionHolds(losses) == Len(losses.shape) = 2

(* -losses.transpose(0, 1); no logit_scale factor.                         *)
LogitsNotTransposed(losses) ==
    Tensor(losses.shape,
           [k \in 1..losses.shape[1] |->
               [b \in Indices(losses.data[k]) |-> NegTerm(losses.data[k][b])]],
           losses.deps)

LogitsNotNegated(losses) ==
    Tensor(<<losses.shape[2], losses.shape[1]>> \o SubSeq(losses.shape, 3, Len(losses.shape)),
           [b \in Indices(losses.data[1]) |->
               [k \in 1..losses.shape[1] |-> losses.data[k][b]]],
           losses.deps)

Logits(losses) ==
    Tensor(<<losses.shape[2], losses.shape[1]>> \o SubSeq(losses.shape, 3, Len(losses.shape)),
           [b \in Indices(losses.data[1]) |->
               [k \in 1..losses.shape[1] |-> NegTerm(losses.data[k][b])]],
           losses.deps)

(* recs, mus, logvars: outputs unzipped, each stacked on a new axis 0.    *)
Stacks(outputs) ==
    [recs |-> Stack([k \in Indices(outputs) |-> outputs[k].rec]),
     mus |-> Stack([k \in Indices(outputs) |-> outputs[k].mu]),
     logvars |-> Stack([k \in Indices(outputs) |-> outputs[k].logvar])]

(* The end of ABS.forward, from the stacked losses on: the assertion, the  *)
(* logits and the returned tuple.  The outcome is return, AssertionError   *)
(* or IndexError (transpose(0, 1) on a tensor of rank below 2).  The names *)
(* recs, mus and logvars of the comprehension are local to it: the stacks  *)
(* are what these names are bound to when forward returns.                 *)
ABSForwardResult(losses, stacks) ==
    IF ~AssertionHolds(losses)
    THEN [kind |-> "AssertionError", logits |-> None, recs |-> None,
          mus |-> None, logvars |-> None]
    ELSE IF Len(losses.shape) < 2
    THEN [kind |-> "IndexError", logits |-> None, recs |-> None,
          mus |-> None, logvars |-> None]
    ELSE [kind |-> "return", logits |-> Logits(losses), recs |-> stacks.recs,
          mus |-> stacks.mus, logvars |-> stacks.logvars]

(* The samplewise_loss_function calls of ABS.forward, stacked.             *)
StackedLosses(x, loss_args, beta, loss_f, rank) ==
    Stack([k \in Indices(loss_args) |->
              samplewise_loss_function(x, loss_args[k].rec, loss_args[k].mu,
                                       loss_args[k].logvar, beta, loss_f, rank)])

----------------------------------------------------------------------------
(* Spec: an ABS ensemble is built, switched between modes, trained from    *)
(* outside and called on batches.                                          *)

CtorArgs ==
    { [kind |-> "ABS", n_classes |-> n, beta |-> b, color |-> c, logit_scale |-> s,
       base_model_f |-> [n_latents |-> MaxLatents, color |-> c], loss_f |-> l] :
        n \in 1..MaxClasses, c \in BOOLEAN,
        <<b, s, l>> \in {<<1, 1, "vae">>, <<2, 2, "alt">>} }

Init ==
    /\ ctor \in CtorArgs
    /\ ensemble = ABSInit(ctor.n_classes, ctor.beta, ctor.color, ctor.logit_scale,
                          ctor.base_model_f, ctor.loss_f, 0)
    /\ rng = Advance(0, ctor.n_classes)
    /\ ret = [kind |-> "none"]
    /\ IdleSize /\ IdleBase /\ IdleVAE

(* model.train(mode) / model.eval(): the flag of the module and of every   *)
(* submodule.                                                              *)
Train ==
    /\ ret.kind = "none"
    /\ \E mode \in BOOLEAN :
          ensemble' = [ensemble EXCEPT
                          !.training = mode,
                          !.base_models = [k \in Indices(ensemble.base_models) |->
                                              SetTraining(ensemble.base_models[k], mode)]]
    /\ UNCHANGED <<img, sizes, gargs, gret, vae, vret, ctor, ret, rng>>

(* The external training procedure writes the parameters of one class-VAE. *)
OptimizerStep ==
    /\ ret.kind = "none"
    /\ \E k \in Indices(ensemble.base_models), p \in EnsembleParamSettings :
          ensemble' = [ensemble EXCEPT !.base_models[k] = SetParams(@, p)]
    /\ UNCHANGED <<img, sizes, gargs, gret, vae, vret, ctor, ret, rng>>

(* logits, recs, mus, logvars = model(x): ABS.forward, statement by        *)
(* statement, with a loss function of rank `rank`.                         *)
Forward ==
    /\ ret.kind = "none"
    /\ \E data \in Batches, g \in BOOLEAN, rank \in 0..MaxLossRank :
       \E x \in {Input(ctor.color, data, g)} :
       \E run \in {RunModels(ensemble.base_models, x, rng)} :
       \E stacks \in {Stacks(run.outputs)} :
       \E loss_args \in {[k \in Indices(run.outputs) |-> LossArguments(run.outputs[k])]} :
       \E losses \in {StackedLosses(x, loss_args, ensemble.beta, ensemble.loss_f, rank)} :
       \E f \in {ABSForwardResult(losses, stacks)} :
           /\ ret' = [kind |-> f.kind, x |-> x, loss_rank |-> rank,
                      before |-> ensemble.base_models, rng_before |-> rng,
                      logits |-> f.logits, recs |-> f.recs, mus |-> f.mus,
                      logvars |-> f.logvars,
                      loss_args |-> loss_args, losses |-> losses]
           /\ ensemble' = [ensemble EXCEPT !.base_models = run.modules]
           /\ rng' = run.rng
           /\ UNCHANGED <<img, sizes, gargs, gret, vae, vret, ctor>>

(* The caller takes what forward returned (or catches what it raised);    *)
(* the next operation follows.                                             *)
Return ==
    /\ ret.kind # "none"
    /\ ret' = [kind |-> "none"]
    /\ UNCHANGED <<img, sizes, gargs, gret, vae, vret, ctor, ensemble, rng>>

Next == Train \/ OptimizerStep \/ Forward \/ Return

Spec == Init /\ [][Next]_vars

(* The generator state the k-th model of base_models starts from in the    *)
(* call ret records: every model before it drew one element per sample in  *)
(* training mode, none in evaluation mode.                                 *)
RngAtModel(k) ==
    IF ret.before[1].training
    THEN Advance(ret.rng_before, (k - 1) * Len(ret.x.data))
    ELSE ret.rng_before

(* C1: for an ensemble of K classes and a batch of B samples, forward      *)
(* returns logits of shape (B, K), and recs, mus, logvars are stacks with  *)
(* leading dimension K whose entry k is the output of the k-th model of    *)
(* base_models on the batch.                                               *)
C1_ForwardShapes ==
    ret.kind = "return" =>
        LET K == ctor.n_classes
            B == Len(ret.x.data)
        IN /\ Len(ensemble.base_models) = K
           /\ ret.logits.shape = <<B, K>>
           /\ Len(ret.logits.data) = B
           /\ \A b \in 1..B : Len(ret.logits.data[b]) = K
           /\ ret.recs.shape[1] = K /\ Len(ret.recs.data) = K
           /\ ret.mus.shape[1] = K /\ Len(ret.mus.data) = K
           /\ ret.logvars.shape[1] = K /\ Len(ret.logvars.data) = K
           /\ \A k \in 1..K :
                  LET f == VAEForward(ret.before[k], ret.x, RngAtModel(k)) IN
                  /\ ret.recs.data[k] = f.rec.data
                  /\ ret.mus.data[k] = f.mu.data
                  /\ ret.logvars.data[k] = f.logvar.data
                  /\ ret.recs.shape = <<K>> \o f.rec.shape
                  /\ ret.mus.shape = <<K>> \o f.mu.shape
                  /\ ret.logvars.shape = <<K>> \o f.logvar.shape

(* Witness: a returned call with K = 2 classes and B = 1 sample, the two   *)
(* models giving different latent means.                                   *)
C1_Witness ==
    /\ ret.kind = "return"
    /\ ctor.n_classes = 2 /\ Len(ret.x.data) = 1
    /\ ret.mus.data[1] # ret.mus.data[2]

(* C2: logits[b][k] is the negated loss the loss function gives sample b   *)
(* for the batch x, the k-th model's own (rec, mu, logvar), the beta and   *)
(* the loss_f the ensemble was built with; no logit_scale is applied.      *)
C2_LogitsAreNegatedLosses ==
    ret.kind = "return" =>
        /\ ensemble.beta = ctor.beta /\ ensemble.loss_f = ctor.loss_f
        /\ \A b \in Indices(ret.x.data) : \A k \in 1..ctor.n_classes :
              LET f == VAEForward(ret.before[k], ret.x, RngAtModel(k)) IN
              ret.logits.data[b][k] =
                  NegTerm(LossTerm(ret.x.data[b], f.rec.data[b], f.mu.data[b],
                                   f.logvar.data[b], ctor.beta, ctor.loss_f))

(* Witness: an ensemble built with logit_scale = 2 and beta = 2 returns    *)
(* logits for two classes whose losses differ on some sample.              *)
C2_Witness ==
    /\ ret.kind = "return"
    /\ ctor.logit_scale = 2 /\ ctor.beta = 2 /\ ctor.n_classes = 2
    /\ Len(ret.x.data) = 2
    /\ \E b \in 1..2 : ret.logits.data[b][1] # ret.logits.data[b][2]

IsInjective(s) == \A i, j \in DOMAIN s : s[i] = s[j] => i = j

(* C5: encoder_parameters and decoder_parameters share no parameter, list  *)
(* none twice, and together are exactly the parameters of all class-VAEs   *)
(* of base_models.                                                         *)
C5_ParameterListsPartition ==
    ensemble.kind = "ABS" =>
        /\ Range(ensemble.encoder_parameters) \cap Range(ensemble.decoder_parameters) = {}
        /\ IsInjective(ensemble.encoder_parameters)
        /\ IsInjective(ensemble.decoder_parameters)
        /\ Range(ensemble.encoder_parameters) \cup Range(ensemble.decoder_parameters)
             = UNION { VAEParameters(ensemble.base_models[k]) :
                         k \in Indices(ensemble.base_models) }

(* Witness: a color ensemble of two classes after a training step and a    *)
(* call, 20 encoder and 18 decoder parameters per class.                   *)
C5_Witness ==
    /\ ensemble.kind = "ABS" /\ ctor.n_classes = 2 /\ ctor.color
    /\ Len(ensemble.encoder_parameters) = 40
    /\ Len(ensemble.decoder_parameters) = 36
    /\ ret.kind = "return"
    /\ ensemble.base_models[2].encoder.blv = Fin(2)

(* C6: forward returns logits only when the stacked loss tensor has rank   *)
(* 2: for a loss function of any rank other than 1 it ends in an           *)
(* AssertionError with nothing returned.                                   *)
C6_AssertRankTwo ==
    ret.kind # "none" =>
        /\ ret.kind = "return" => (Len(ret.losses.shape) = 2 /\ ret.loss_rank = 1)
        /\ ret.loss_rank # 1 =>
              /\ ret.kind = "AssertionError"
              /\ ret.logits = None /\ ret.recs = None
              /\ ret.mus = None /\ ret.logvars = None
        /\ ret.loss_rank = 1 => ret.kind = "return"

(* Witness: an unreduced loss of rank 2 made the stack rank 3 and the      *)
(* assertion failed.                                                       *)
C6_Witness ==
    /\ ret.kind = "AssertionError"
    /\ ret.loss_rank = 2
    /\ Len(ret.losses.shape) = 3

ParameterLeaves ==
    { LeafOf(p) : p \in Range(ensemble.encoder_parameters)
                        \cup Range(ensemble.decoder_parameters) }

(* C9: every tensor handed to the loss function is detached, so the logits *)
(* reach no encoder or decoder parameter of any class-VAE, while the recs, *)
(* mus and logvars returned are the stacks of the VAE outputs, still on    *)
(* the graph of each model's parameters.                                   *)
C9_LogitsDetached ==
    ret.kind = "return" =>
        /\ \A k \in Indices(ret.loss_args) :
              /\ ret.loss_args[k].rec.deps = {}
              /\ ret.loss_args[k].mu.deps = {}
              /\ ret.loss_args[k].logvar.deps = {}
              /\ ret.recs.data[k] = ret.loss_args[k].rec.data
              /\ ret.mus.data[k] = ret.loss_args[k].mu.data
              /\ ret.logvars.data[k] = ret.loss_args[k].logvar.data
        /\ ret.logits.deps \cap ParameterLeaves = {}
        /\ ret.logits.deps = ret.x.deps
        /\ Len(ret.recs.shape) = 5 /\ ret.recs.shape[1] = ctor.n_classes
        /\ Len(ret.mus.shape) = 5 /\ ret.mus.shape[1] = ctor.n_classes
        /\ Len(ret.logvars.shape) = 5 /\ ret.logvars.shape[1] = ctor.n_classes
        /\ \A k \in Indices(ensemble.base_models) :
              LET id == ensemble.base_models[k].id IN
              /\ {<<id, "encoder", "shared">>, <<id, "encoder", "conv_mu">>,
                  <<id, "decoder", "layers">>} \subseteq ret.recs.deps
              /\ {<<id, "encoder", "shared">>, <<id, "encoder", "conv_mu">>}
                    \subseteq ret.mus.deps
              /\ {<<id, "encoder", "shared">>, <<id, "encoder", "conv_logvar">>}
                    \subseteq ret.logvars.deps

(* Witness: a training-mode call on two classes with an input that         *)
(* requires grad: the logits reach the input and nothing else.             *)
C9_Witness ==
    /\ ret.kind = "return" /\ ensemble.training
    /\ ctor.n_classes = 2
    /\ ret.logits.deps = {<<0, "input", "x">>}
    /\ <<2, "encoder", "conv_logvar">> \in ret.recs.deps

----------------------------------------------------------------------------
(* C8 as stated: for both families and every input height and width for    *)
(* which the encoder produces a non-empty latent, the reconstruction that  *)
(* VAE.forward returns has the shape (batch, channels, height, width) of   *)
(* the input image.                                                        *)
C8_RecShapeEqualsInputAnySize ==
    (sizes.called /\ sizes.latent.ok) =>
        (sizes.rec.ok /\ sizes.rec.shape = img.shape)

RoundDown4(n) == 4 * (n \div 4)

(* C8 amended: whenever the encoder produces a non-empty latent, the       *)
(* reconstruction has the batch size and channel count of the input and    *)
(* each spatial dimension is the input's rounded down to a multiple of 4;  *)
(* so it has the input's shape exactly when height and width are multiples *)
(* of 4 (28x28 grayscale and 32x32 color among them).                      *)
C8_RecShapeEqualsInputMultipleOf4 ==
    (sizes.called /\ sizes.latent.ok) =>
        /\ sizes.rec.ok
        /\ sizes.rec.shape = <<img.shape[1], img.shape[2],
                               RoundDown4(img.shape[3]), RoundDown4(img.shape[4])>>
        /\ (img.shape[3] % 4 = 0 /\ img.shape[4] % 4 = 0) =>
               sizes.rec.shape = img.shape

(* Witness: both families reconstruct a batch whose sides are multiples of *)
(* 4 but not the design size, here a 32x36 color batch.                    *)
C8_Witness ==
    /\ sizes.called /\ sizes.latent.ok /\ img.color
    /\ img.shape[3] = 32 /\ img.shape[4] = 36
    /\ sizes.latent.shape[3] = 1 /\ sizes.latent.shape[4] = 2
    /\ sizes.rec.shape = img.shape

====
